---- MODULE Spec2Model ----
(***************************************************************************)
(* Vesting schedule compiler of token-vesting-cli: parseVestingSchedule    *)
(* (src/token-vesting-cli/src/commands.ts) with its yup schema, the        *)
(* IS08601_DURATION_REGEX, parse_duration and the per-item switch that     *)
(* drives the VestingSchedule builder of token-vesting-api.                *)
(*                                                                         *)
(* Encodings.  A text is a sequence of one-character strings.  A JSON      *)
(* value is a record [k, v]: k is its kind ("undefined", "null", "number", *)
(* "string", "date") and v its payload.  A number is carried as twice its  *)
(* value (v = 3 is 1.5), so that non-integers are representable.  A date   *)
(* carries its epoch milliseconds.                                         *)
(***************************************************************************)
EXTENDS Integers, Sequences, FiniteSets

VARIABLES schedule, pc, validated_schedule, builder, result,
          command, file, fill_pc, vestingTypes, transactions

\* The state of parseVestingSchedule, and the state of what calls it: the
\* command run, the file it reads, its position, the schedules it has
\* collected and the transactions it has handed to processTransaction.
compiler == <<schedule, pc, validated_schedule, builder, result>>
callers == <<command, file, fill_pc, vestingTypes, transactions>>
vars == <<schedule, pc, validated_schedule, builder, result,
          command, file, fill_pc, vestingTypes, transactions>>

(***************************************************************************)
(* JSON values                                                             *)
(***************************************************************************)
Undef == [k |-> "undefined", v |-> 0]
Null == [k |-> "null", v |-> 0]
Num(twice) == [k |-> "number", v |-> twice]
Date(ms) == [k |-> "date", v |-> ms]
UndefText == [k |-> "undefined", v |-> <<>>]
NullText == [k |-> "null", v |-> <<>>]
Str(text) == [k |-> "string", v |-> text]
UndefType == [k |-> "undefined", v |-> ""]
Type(name) == [k |-> "string", v |-> name]

(***************************************************************************)
(* IS08601_DURATION_REGEX, commands.ts:143                                 *)
(*   /P(?=\d+[YMWD])(\d+Y)?(\d+M)?(\d+W)?(\d+D)?                           *)
(*     (T(?=\d+[HMS])(\d+H)?(\d+M)?(\d+S)?)?/                              *)
(* The expression is not anchored: String.match and yup's matches() look   *)
(* for the leftmost position where it matches.                             *)
(***************************************************************************)
Digits == {"0", "1", "2", "3", "4", "5", "6", "7", "8", "9"}

DigitValue(c) ==
  CASE c = "0" -> 0 [] c = "1" -> 1 [] c = "2" -> 2 [] c = "3" -> 3
    [] c = "4" -> 4 [] c = "5" -> 5 [] c = "6" -> 6 [] c = "7" -> 7
    [] c = "8" -> 8 [] c = "9" -> 9

\* \d+ is greedy: the position after the longest run of digits from i.
RECURSIVE DigitsEnd(_, _)
DigitsEnd(s, i) ==
  IF i <= Len(s) /\ s[i] \in Digits THEN DigitsEnd(s, i + 1) ELSE i

\* (?=\d+[...]) at position i.
Lookahead(s, i, letters) ==
  LET j == DigitsEnd(s, i) IN j > i /\ j <= Len(s) /\ s[j] \in letters

\* (\d+L)? at position i: the position after the group when it takes part,
\* i itself when it is skipped.
ComponentEnd(s, i, letter) ==
  LET j == DigitsEnd(s, i)
  IN IF j > i /\ j <= Len(s) /\ s[j] = letter THEN j + 1 ELSE i

\* s[a .. b-1]; the empty text stands for a group that took no part
\* (undefined in the match array): a group that takes part is never empty.
Slice(s, a, b) == SubSeq(s, a, b - 1)

\* The match array [full, Y, M, W, D, T..., H, M, S] of an attempt at
\* position i, or <<>> when the attempt fails.
MatchAt(s, i) ==
  IF ~(i <= Len(s) /\ s[i] = "P" /\ Lookahead(s, i + 1, {"Y", "M", "W", "D"}))
  THEN <<>>
  ELSE LET p1 == i + 1
           p2 == ComponentEnd(s, p1, "Y")
           p3 == ComponentEnd(s, p2, "M")
           p4 == ComponentEnd(s, p3, "W")
           p5 == ComponentEnd(s, p4, "D")
           hasT == p5 <= Len(s) /\ s[p5] = "T"
                   /\ Lookahead(s, p5 + 1, {"H", "M", "S"})
           q1 == p5 + 1
           q2 == ComponentEnd(s, q1, "H")
           q3 == ComponentEnd(s, q2, "M")
           q4 == ComponentEnd(s, q3, "S")
           end == IF hasT THEN q4 ELSE p5
       IN << Slice(s, i, end),
             Slice(s, p1, p2), Slice(s, p2, p3), Slice(s, p3, p4),
             Slice(s, p4, p5),
             IF hasT THEN Slice(s, p5, q4) ELSE <<>>,
             IF hasT THEN Slice(s, q1, q2) ELSE <<>>,
             IF hasT THEN Slice(s, q2, q3) ELSE <<>>,
             IF hasT THEN Slice(s, q3, q4) ELSE <<>> >>

RECURSIVE MatchFrom(_, _)
MatchFrom(s, i) ==
  IF i > Len(s) THEN <<>>
  ELSE LET m == MatchAt(s, i) IN IF m # <<>> THEN m ELSE MatchFrom(s, i + 1)

\* duration.match(IS08601_DURATION_REGEX): <<>> is null.
RegexMatch(s) == MatchFrom(s, 1)

(***************************************************************************)
(* parse_duration, commands.ts:164-207                                     *)
(***************************************************************************)
\* parseInt of a run of decimal digits.
RECURSIVE ParseInt(_)
ParseInt(digits) ==
  IF digits = <<>> THEN 0
  ELSE 10 * ParseInt(SubSeq(digits, 1, Len(digits) - 1))
       + DigitValue(digits[Len(digits)])

\* A slip: the time specifier is not looked at, every M counts as months.
AlwaysMonth(n, hadTimeSpecifier) == n * 60 * 60 * 24 * 30

\* case 'M' of the switch: minutes after the time specifier, months before.
MonthOrMinute(n, hadTimeSpecifier) ==
  IF hadTimeSpecifier THEN n * 60 ELSE n * 60 * 60 * 24 * 30

\* The switch on the last character of a component.
Seconds(n, unit, hadTimeSpecifier) ==
  CASE unit = "Y" -> n * 60 * 60 * 24 * 30 * 365
    [] unit = "M" -> MonthOrMinute(n, hadTimeSpecifier)
    [] unit = "W" -> n * 60 * 60 * 24 * 7
    [] unit = "D" -> n * 60 * 60 * 24
    [] unit = "H" -> n * 60 * 60
    [] unit = "S" -> n
    [] OTHER -> 0

\* One turn of `for (const match of matches)`.
DurationStep(acc, match) ==
  IF match = <<>> THEN acc
  ELSE IF match[1] = "P" THEN acc
  ELSE IF match[1] = "T" THEN [acc EXCEPT !.hadTimeSpecifier = TRUE]
  ELSE LET n == ParseInt(SubSeq(match, 1, Len(match) - 1))
       IN [acc EXCEPT !.result =
             @ + Seconds(n, match[Len(match)], acc.hadTimeSpecifier)]

RECURSIVE DurationLoop(_, _, _)
DurationLoop(matches, i, acc) ==
  IF i > Len(matches) THEN acc
  ELSE DurationLoop(matches, i + 1, DurationStep(acc, matches[i]))

parse_duration(duration) ==
  LET matches == RegexMatch(duration)
  IN IF matches # <<>>
     THEN DurationLoop(matches, 1,
                       [result |-> 0, hadTimeSpecifier |-> FALSE]).result
     ELSE 0

(***************************************************************************)
(* The yup schema of parseVestingSchedule, commands.ts:145-157, and         *)
(* schema.validate, commands.ts:159 (validation casts: count gets its       *)
(* default).                                                               *)
(***************************************************************************)
IsInteger(n) == n.v % 2 = 0
IsPositive(n) == n.v > 0
IsMin1(n) == n.v >= 2

\* name: yup.string().required()
NameOk(name) == name.k = "string" /\ name.v # ""

\* amount: yup.number().required().positive().integer()
AmountOk(amount) ==
  amount.k = "number" /\ IsPositive(amount) /\ IsInteger(amount)

\* type: yup.string().oneOf(["offseted", "fixed", "onetime"]).required()
TypeOk(type) == type.k = "string" /\ type.v \in {"offseted", "fixed", "onetime"}

\* A slip: the part is only checked to be a number or null.
PartOkAnyNumber(part) == part.k \in {"null", "number"}

\* part: yup.number().nullable().defined().positive().min(1).integer()
PartOk(part) ==
  \/ part.k = "null"
  \/ part.k = "number" /\ IsPositive(part) /\ IsMin1(part) /\ IsInteger(part)

\* count: yup.number().positive().integer().min(1).default(1)
CountOk(count) ==
  \/ count.k = "undefined"
  \/ count.k = "number" /\ IsPositive(count) /\ IsInteger(count) /\ IsMin1(count)

\* time: yup.date().optional()
TimeOk(time) == time.k \in {"undefined", "date"}

\* offset: yup.string().matches(IS08601_DURATION_REGEX)
OffsetOk(offset) ==
  \/ offset.k = "undefined"
  \/ offset.k = "string" /\ RegexMatch(offset.v) # <<>>

\* period: yup.string().nullable().matches(IS08601_DURATION_REGEX)
PeriodOk(period) ==
  \/ period.k \in {"undefined", "null"}
  \/ period.k = "string" /\ RegexMatch(period.v) # <<>>

ItemOk(item) ==
  /\ TypeOk(item.type)
  /\ PartOk(item.part)
  /\ CountOk(item.count)
  /\ TimeOk(item.time)
  /\ OffsetOk(item.offset)
  /\ PeriodOk(item.period)

\* schedule: yup.array().min(1).of(...).required()
SchemaOk(plan) ==
  /\ NameOk(plan.name)
  /\ AmountOk(plan.amount)
  /\ Len(plan.schedule) >= 1
  /\ \A k \in 1..Len(plan.schedule) : ItemOk(plan.schedule[k])

\* The cast of an item: .default(1) of count.
CastItem(item) ==
  [item EXCEPT !.count = IF @.k = "undefined" THEN Num(2) ELSE @]

CastPlan(plan) ==
  [plan EXCEPT !.schedule = [k \in 1..Len(plan.schedule) |-> CastItem(plan.schedule[k])]]

(***************************************************************************)
(* The VestingSchedule builder and LinearVesting of token-vesting-api       *)
(* (models.ts is not among the sources): the accumulate-then-finalize       *)
(* protocol, the token-share algorithm and the time resolution the          *)
(* specification gives for it.                                             *)
(***************************************************************************)
\* An amount of tokens (a weight) or none.
NoTokens == [defined |-> FALSE, v |-> 0]
Tokens(n) == [defined |-> TRUE, v |-> n]

LinearVesting(start_time, period, count) ==
  [start_time |-> start_time, period |-> period, count |-> count]

without_start(period, count) == LinearVesting(0, period, count)

with_tokens(total_tokens) == [total_tokens |-> total_tokens, entries |-> <<>>]

Entry(kind, vesting, tokens) ==
  [kind |-> kind, start_time |-> vesting.start_time, period |-> vesting.period,
   count |-> vesting.count, tokens |-> tokens]

add(b, vesting, tokens) ==
  [b EXCEPT !.entries = Append(@, Entry("LinearRelease", vesting, tokens))]

cliff(b, time, tokens) ==
  [b EXCEPT !.entries =
     Append(@, Entry("LumpRelease", LinearVesting(time, 0, 1), tokens))]

\* The final release time of an entry: its last tranche.
FinalTime(e) == e.start_time + (e.count - 1) * e.period

\* The builder does not reject an offset without a previous entry: it has
\* no anchor then, and counts from 0.
PreviousFinalTime(b) ==
  IF b.entries = <<>> THEN 0 ELSE FinalTime(b.entries[Len(b.entries)])

offseted_by(b, offset, vesting, tokens) ==
  add(b, LinearVesting(PreviousFinalTime(b) + offset, vesting.period,
                       vesting.count), tokens)

RECURSIVE SumParts(_, _)
SumParts(entries, n) ==
  IF n = 0 THEN 0
  ELSE SumParts(entries, n - 1)
       + (IF entries[n].tokens.defined THEN entries[n].tokens.v ELSE 0)

\* floor(total_tokens * part / sum_of_all_explicit_parts)
Allocation(total_tokens, part, sum_parts) == (total_tokens * part) \div sum_parts

RECURSIVE SumExplicit(_, _, _)
SumExplicit(b, sum_parts, n) ==
  IF n = 0 THEN 0
  ELSE SumExplicit(b, sum_parts, n - 1)
       + (IF b.entries[n].tokens.defined
          THEN Allocation(b.total_tokens, b.entries[n].tokens.v, sum_parts)
          ELSE 0)

Remainders(b) == {k \in 1..Len(b.entries) : ~b.entries[k].tokens.defined}

Event(b, e, sum_parts, explicit) ==
  [kind |-> e.kind, start_time |-> e.start_time, period |-> e.period,
   tranche_count |-> e.count,
   token_amount |-> IF e.tokens.defined
                    THEN Allocation(b.total_tokens, e.tokens.v, sum_parts)
                    ELSE b.total_tokens - explicit]

NoSchedule == [total_token_count |-> 0, event_count |-> 0, events |-> <<>>]

build(b) ==
  LET n == Len(b.entries)
      sum_parts == SumParts(b.entries, n)
      explicit == IF sum_parts = 0 THEN 0 ELSE SumExplicit(b, sum_parts, n)
  IN IF n = 0
     THEN [status |-> "EmptyScheduleError", schedule |-> NoSchedule]
     ELSE IF Cardinality(Remainders(b)) > 1
     THEN [status |-> "AmbiguousRemainderError", schedule |-> NoSchedule]
     ELSE IF explicit > b.total_tokens
     THEN [status |-> "OverAllocationError", schedule |-> NoSchedule]
     ELSE [status |-> "ok",
           schedule |->
             [total_token_count |-> b.total_tokens,
              event_count |-> n,
              events |-> [k \in 1..n |->
                            Event(b, b.entries[k], sum_parts, explicit)]]]

(***************************************************************************)
(* The plans compiled: the bounds and the values the fields are drawn from. *)
(***************************************************************************)
MaxItems == 3
MaxAmount == 4

P1Y == <<"P", "1", "Y">>
P1M == <<"P", "1", "M">>
P1W == <<"P", "1", "W">>
P1D == <<"P", "1", "D">>
P10D == <<"P", "1", "0", "D">>
P1DT2H == <<"P", "1", "D", "T", "2", "H">>
P1DT5S == <<"P", "1", "D", "T", "5", "S">>
P2MT3M == <<"P", "2", "M", "T", "3", "M">>
P1YT4M == <<"P", "1", "Y", "T", "4", "M">>
P1Y2M3W4DT5H6M7S ==
  <<"P", "1", "Y", "2", "M", "3", "W", "4", "D", "T", "5", "H", "6", "M", "7", "S">>
PT1M == <<"P", "T", "1", "M">>
PT2H3S == <<"P", "T", "2", "H", "3", "S">>
P1D1Y == <<"P", "1", "D", "1", "Y">>
P1DT1p5H == <<"P", "1", "D", "T", "1", ".", "5", "H">>
P1p5D == <<"P", "1", ".", "5", "D">>
P1Dtail == <<"P", "1", "D", "x">>
headP1D == <<"x", "P", "1", "D">>
OnlyP == <<"P">>
Empty == <<>>
NoP1D == <<"1", "D">>

DurationTexts ==
  {P1Y, P1M, P1W, P1D, P10D, P1DT2H, P1DT5S, P2MT3M, P1YT4M, P1Y2M3W4DT5H6M7S,
   PT1M, PT2H3S, P1D1Y, P1DT1p5H, P1p5D, P1Dtail, headP1D, OnlyP, Empty, NoP1D}

Item(type, part, count, time, offset, period) ==
  [type |-> type, part |-> part, count |-> count, time |-> time,
   offset |-> offset, period |-> period]

Plan(name, amount, items) ==
  [name |-> name, amount |-> amount, schedule |-> items]

\* One item, every field drawn from valid and invalid values.
AnyItems ==
  {Item(type, part, count, time, offset, period) :
     type \in {Type("fixed"), Type("onetime"), Type("offseted"),
               Type("linear"), UndefType},
     part \in {Undef, Null, Num(2), Num(4), Num(0), Num(3), Num(-2)},
     count \in {Undef, Null, Num(2), Num(4), Num(0), Num(3)},
     time \in {Undef, Null, Date(1500)},
     offset \in {UndefText, Str(P1D), Str(PT1M)},
     period \in {UndefText, NullText, Str(P1W)}}

GoodItem == Item(Type("onetime"), Null, Undef, Date(1500), UndefText, UndefText)

FieldPlans ==
  {Plan(Type("team"), Num(2 * MaxAmount), <<item>>) : item \in AnyItems}
  \cup {Plan(name, amount, <<GoodItem>>) :
          name \in {UndefType, Type(""), Type("team")},
          amount \in {Undef, Num(0), Num(-2), Num(3), Num(2)}}
  \cup {Plan(Type("team"), Num(2), <<>>)}

\* A fixed item and an offseted one, their durations drawn from the texts.
DurationPlans ==
  {Plan(Type("team"), Num(2 * MaxAmount),
        <<Item(Type("fixed"), Num(2), Num(4), Date(1500), UndefText, Str(d1)),
          Item(Type("offseted"), Null, Undef, Undef, Str(d2), NullText)>>) :
     d1 \in DurationTexts, d2 \in DurationTexts}

\* The items of the schedules: the three types with and without a part,
\* and items that lack a field their type uses.
Parts == {Null, Num(2), Num(4)}

ScheduleItems ==
  {Item(Type("fixed"), part, Num(6), Date(86400999), UndefText, Str(P1D)) :
     part \in Parts}
  \cup {Item(Type("onetime"), part, Undef, Date(90000), UndefText, UndefText) :
          part \in Parts}
  \cup {Item(Type("offseted"), part, Undef, Undef, Str(P1DT2H), NullText) :
          part \in Parts}
  \cup {Item(Type("offseted"), Num(2), Num(4), Undef, Str(P1W), Str(P1DT5S)),
        Item(Type("fixed"), Num(2), Undef, Date(1500), UndefText, UndefText),
        Item(Type("onetime"), Num(2), Undef, Undef, UndefText, UndefText),
        Item(Type("offseted"), Num(2), Undef, Undef, UndefText, Str(P1D))}

RECURSIVE Schedules(_)
Schedules(n) ==
  IF n = 0 THEN {<<>>}
  ELSE {Append(s, item) : s \in Schedules(n - 1), item \in ScheduleItems}

SchedulePlans ==
  {Plan(Type("team"), Num(2 * amount), items) :
     amount \in 1..MaxAmount,
     items \in UNION {Schedules(n) : n \in 1..MaxItems}}

Plans == FieldPlans \cup DurationPlans \cup SchedulePlans

(***************************************************************************)
(* parseVestingSchedule, commands.ts:140-254                               *)
(***************************************************************************)
NoBuilder == with_tokens(0)
Pending == [status |-> "pending", schedule |-> NoSchedule]
Failure(error) == [status |-> error, schedule |-> NoSchedule]

Init ==
  /\ schedule \in Plans
  /\ pc = "validate"
  /\ validated_schedule = Plan(UndefType, Undef, <<>>)
  /\ builder = NoBuilder
  /\ result = Pending
  /\ command = "none"
  /\ file = <<>>
  /\ fill_pc = "idle"
  /\ vestingTypes = <<>>
  /\ transactions = <<>>

\* const validated_schedule = await schema.validate(schedule);
\* let builder = VestingSchedule.with_tokens(new BN(validated_schedule.amount));
Validate ==
  /\ pc = "validate"
  /\ IF SchemaOk(schedule)
     THEN /\ validated_schedule' = CastPlan(schedule)
          /\ builder' = with_tokens(schedule.amount.v \div 2)
          /\ pc' = "items"
          /\ UNCHANGED result
     ELSE /\ result' = Failure("ValidationError")
          /\ pc' = "done"
          /\ UNCHANGED <<validated_schedule, builder>>
  /\ UNCHANGED <<schedule, callers>>

\* The item the for loop is at: one builder entry is made per item.
Index == Len(builder.entries) + 1
schedule_item == validated_schedule.schedule[Index]

AtItem(type) ==
  /\ pc = "items"
  /\ Index <= Len(validated_schedule.schedule)
  /\ schedule_item.type.v = type

\* A slip: the tokens are read from the count field.
ItemTokensFromCount(item) ==
  IF item.part.k = "null" THEN NoTokens ELSE Tokens(item.count.v \div 2)

\* A slip: a null part becomes the weight 1 instead of undefined.
ItemTokensNullAsOne(item) ==
  IF item.part.k = "null" THEN Tokens(1) ELSE Tokens(item.part.v \div 2)

\* let tokens = schedule_item.part === null ? undefined : new BN(schedule_item.part!);
ItemTokens(item) ==
  IF item.part.k = "null" THEN NoTokens ELSE Tokens(item.part.v \div 2)

\* A slip: the milliseconds of getTime() are not divided by 1000.
UnixTimeMillis(time) == time.v

\* new BN(Math.floor(time!.getTime()/1000))
UnixTime(time) == time.v \div 1000

\* time!.getTime() of undefined, and duration.match of undefined or null,
\* throw a TypeError.
HasTime(item) == item.time.k = "date"
IsText(duration) == duration.k = "string"

Crash ==
  /\ result' = Failure("TypeError")
  /\ pc' = "done"
  /\ UNCHANGED builder

Fed(b) ==
  /\ builder' = b
  /\ UNCHANGED <<pc, result>>

\* case 'fixed'
ProcessFixed ==
  /\ AtItem("fixed")
  /\ IF HasTime(schedule_item) /\ IsText(schedule_item.period)
     THEN Fed(add(builder,
                  LinearVesting(UnixTime(schedule_item.time),
                                parse_duration(schedule_item.period.v),
                                schedule_item.count.v \div 2),
                  ItemTokens(schedule_item)))
     ELSE Crash
  /\ UNCHANGED <<schedule, validated_schedule, callers>>

\* case 'onetime'
ProcessOnetime ==
  /\ AtItem("onetime")
  /\ IF HasTime(schedule_item)
     THEN Fed(cliff(builder, UnixTime(schedule_item.time),
                    ItemTokens(schedule_item)))
     ELSE Crash
  /\ UNCHANGED <<schedule, validated_schedule, callers>>

\* A slip: a missing period defaults to one day instead of the empty duration.
PeriodOrDay(period) == IF IsText(period) THEN period.v ELSE P1D

\* period = period ?? "P"
PeriodOrEmpty(period) == IF IsText(period) THEN period.v ELSE OnlyP

\* A slip: the offset and the period change places in the call.
ProcessOffsetedSwapped ==
  /\ AtItem("offseted")
  /\ IF IsText(schedule_item.offset)
     THEN Fed(offseted_by(builder,
                          parse_duration(PeriodOrEmpty(schedule_item.period)),
                          without_start(
                            parse_duration(schedule_item.offset.v),
                            schedule_item.count.v \div 2),
                          ItemTokens(schedule_item)))
     ELSE Crash
  /\ UNCHANGED <<schedule, validated_schedule, callers>>

\* case 'offseted'
ProcessOffseted ==
  /\ AtItem("offseted")
  /\ IF IsText(schedule_item.offset)
     THEN Fed(offseted_by(builder,
                          parse_duration(schedule_item.offset.v),
                          without_start(
                            parse_duration(PeriodOrEmpty(schedule_item.period)),
                            schedule_item.count.v \div 2),
                          ItemTokens(schedule_item)))
     ELSE Crash
  /\ UNCHANGED <<schedule, validated_schedule, callers>>

\* return builder.build();
Build ==
  /\ pc = "items"
  /\ Index > Len(validated_schedule.schedule)
  /\ result' = build(builder)
  /\ pc' = "done"
  /\ UNCHANGED <<schedule, validated_schedule, builder, callers>>

Next ==
  \/ Validate
  \/ ProcessFixed
  \/ ProcessOnetime
  \/ ProcessOffseted
  \/ Build

Spec == Init /\ [][Next]_vars

(***************************************************************************)
(* The "create" and "change-schedule" actions of the program               *)
(* (src/unnamed/part_001:73-114) with createVestingTypeCommand and         *)
(* changeVestingTypeScheduleCommand (commands.ts:17-48).  A transaction is *)
(* recorded when it is handed to processTransaction, with whether          *)
(* sendAndConfirmTransaction confirmed it or threw.                        *)
(***************************************************************************)
\* The plans of the commands: every schedule of one or two items, the
\* duration texts and the top-level fields.
CommandPlans ==
  {p \in SchedulePlans : Len(p.schedule) <= 2}
  \cup {p \in DurationPlans : TRUE}
  \cup {p \in FieldPlans : Len(p.schedule) = 0 \/ p.schedule = <<GoodItem>>}

InitCommand ==
  /\ schedule \in CommandPlans
  /\ pc = "validate"
  /\ validated_schedule = Plan(UndefType, Undef, <<>>)
  /\ builder = NoBuilder
  /\ result = Pending
  /\ command \in {"create", "change-schedule"}
  /\ file = <<>>
  /\ fill_pc = "idle"
  /\ vestingTypes = <<>>
  /\ transactions = <<>>

\* A slip: whatever the compilation ended with is taken for a schedule.
ReceivedAnything(r) == TRUE

\* const vestingSchedule = await parseVestingSchedule(scheduleObject);
\* if (vestingSchedule === undefined) { ...; return; }
\* The caller goes on only when the await neither threw nor gave undefined.
Received(r) == r.status = "ok"

\* new CreateVestingTypeInstruction(token_count, vesting_count, vestings)
Instruction(name, vestingSchedule) ==
  [instruction |-> name,
   token_count |-> vestingSchedule.total_token_count,
   vesting_count |-> vestingSchedule.event_count,
   vestings |-> vestingSchedule.events]

\* await processTransaction(transaction)
Sent(name, instruction, confirmed) ==
  [name |-> name, instruction |-> instruction, confirmed |-> confirmed]

SubmitCommand(name) ==
  /\ pc = "done"
  /\ Received(result)
  /\ \E confirmed \in BOOLEAN :
       /\ transactions' =
            Append(transactions,
                   Sent("VESTING_NAME", Instruction(name, result.schedule),
                        confirmed))
       /\ command' = IF confirmed THEN "returned" ELSE "failed"
  /\ UNCHANGED <<compiler, file, fill_pc, vestingTypes>>

createVestingTypeCommand ==
  /\ command = "create"
  /\ SubmitCommand("CreateVestingType")

changeVestingTypeScheduleCommand ==
  /\ command = "change-schedule"
  /\ SubmitCommand("ChangeVestingTypeSchedule")

\* The await threw, or console.log("Failed to parse vesting schedule").
FailedToParse ==
  /\ command \in {"create", "change-schedule"}
  /\ pc = "done"
  /\ ~Received(result)
  /\ command' = "failed"
  /\ UNCHANGED <<compiler, file, fill_pc, vestingTypes, transactions>>

NextCommand ==
  \/ Validate
  \/ ProcessFixed
  \/ ProcessOnetime
  \/ ProcessOffseted
  \/ Build
  \/ createVestingTypeCommand
  \/ changeVestingTypeScheduleCommand
  \/ FailedToParse

SpecCommand == InitCommand /\ [][NextCommand]_vars

(***************************************************************************)
(* fillVestingTypesFromJson, commands.ts:256-304: the file is validated,   *)
(* every type is compiled by parseVestingSchedule and collected, and then  *)
(* one createVestingType transaction per collected type is sent and        *)
(* awaited.                                                                *)
(***************************************************************************)
MaxTypes == 3

\* The types of the files: two that compile, one the file schema rejects,
\* one that parseVestingSchedule rejects, one that throws at its second
\* item and one the builder cannot finish.
TypePlans ==
  {Plan(Type("seed"), Num(4),
        <<Item(Type("fixed"), Null, Num(4), Date(86400999), UndefText, Str(P1D))>>),
   Plan(Type("team"), Num(6),
        <<Item(Type("onetime"), Num(2), Undef, Date(90000), UndefText, UndefText),
          Item(Type("offseted"), Null, Undef, Undef, Str(P1DT2H), NullText)>>),
   Plan(Type("advisors"), Undef, <<GoodItem>>),
   Plan(Type("private"), Num(4),
        <<Item(Type("linear"), Null, Undef, Date(90000), UndefText, UndefText)>>),
   Plan(Type("public"), Num(4),
        <<GoodItem,
          Item(Type("fixed"), Num(2), Undef, Date(1500), UndefText, UndefText)>>),
   Plan(Type("reserve"), Num(4), <<GoodItem, GoodItem>>)}

RECURSIVE TypeFiles(_)
TypeFiles(n) ==
  IF n = 0 THEN {<<>>}
  ELSE {Append(f, type) : f \in TypeFiles(n - 1), type \in TypePlans}

\* yup.array().of(yup.object().required().shape({name: string().required(),
\*   amount: number().required().positive().integer(), schedule: array().min(1)}))
TypesOk(types) ==
  \A k \in 1..Len(types) :
    /\ NameOk(types[k].name)
    /\ AmountOk(types[k].amount)
    /\ Len(types[k].schedule) >= 1

InitTypes ==
  /\ command = "fill-vesting-types"
  /\ file \in UNION {TypeFiles(n) : n \in 0..MaxTypes}
  /\ fill_pc = "validate"
  /\ vestingTypes = <<>>
  /\ transactions = <<>>
  /\ schedule = Plan(UndefType, Undef, <<>>)
  /\ pc = "idle"
  /\ validated_schedule = Plan(UndefType, Undef, <<>>)
  /\ builder = NoBuilder
  /\ result = Pending

\* const validated_types = await schema.validate(types);
ValidateTypes ==
  /\ command = "fill-vesting-types"
  /\ fill_pc = "validate"
  /\ fill_pc' = IF TypesOk(file) THEN "run" ELSE "failed"
  /\ UNCHANGED <<compiler, command, file, vestingTypes, transactions>>

\* for (const vesting_type of validated_types!)
\*   let schedule = await parseVestingSchedule(vesting_type)
ParseNextType ==
  /\ command = "fill-vesting-types"
  /\ fill_pc = "run"
  /\ pc = "idle"
  /\ Len(vestingTypes) < Len(file)
  /\ schedule' = file[Len(vestingTypes) + 1]
  /\ pc' = "validate"
  /\ validated_schedule' = Plan(UndefType, Undef, <<>>)
  /\ builder' = NoBuilder
  /\ result' = Pending
  /\ UNCHANGED callers

\* if (schedule === undefined) throw Error('Failed to build schedule');
\* vestingTypes.push([vesting_type.name, schedule]);
PushType ==
  /\ command = "fill-vesting-types"
  /\ fill_pc = "run"
  /\ pc = "done"
  /\ IF Received(result)
     THEN /\ vestingTypes' = Append(vestingTypes, <<schedule.name.v, result.schedule>>)
          /\ pc' = "idle"
          /\ UNCHANGED fill_pc
     ELSE /\ fill_pc' = "failed"
          /\ UNCHANGED <<vestingTypes, pc>>
  /\ UNCHANGED <<schedule, validated_schedule, builder, result,
                 command, file, transactions>>

\* A slip: a type is sent as soon as it is collected.
SubmitEarly == TRUE

\* The second for loop begins when the first one has ended.
SubmitPhase == Len(vestingTypes) = Len(file) /\ pc = "idle"

\* for (const [vestingName, vestingType] of vestingTypes)
\*   ... await processTransaction(transaction);
CreateNextType ==
  /\ command = "fill-vesting-types"
  /\ fill_pc = "run"
  /\ SubmitPhase
  /\ Len(transactions) < Len(vestingTypes)
  /\ LET type == vestingTypes[Len(transactions) + 1]
     IN \E confirmed \in BOOLEAN :
          /\ transactions' =
               Append(transactions,
                      Sent(type[1], Instruction("CreateVestingType", type[2]),
                           confirmed))
          /\ fill_pc' = IF confirmed THEN "run" ELSE "failed"
  /\ UNCHANGED <<compiler, command, file, vestingTypes>>

\* The second loop has no type left.
FinishTypes ==
  /\ command = "fill-vesting-types"
  /\ fill_pc = "run"
  /\ SubmitPhase
  /\ Len(transactions) = Len(file)
  /\ fill_pc' = "done"
  /\ UNCHANGED <<compiler, command, file, vestingTypes, transactions>>

NextTypes ==
  \/ ValidateTypes
  \/ ParseNextType
  \/ Validate
  \/ ProcessFixed
  \/ ProcessOnetime
  \/ ProcessOffseted
  \/ Build
  \/ PushType
  \/ CreateNextType
  \/ FinishTypes

SpecTypes == InitTypes /\ [][NextTypes]_vars

(***************************************************************************)
(* fillVestingsFromCsv, commands.ts:306-348: each record of the file is    *)
(* validated, then a createVestingAccount transaction is built for it,     *)
(* sent and awaited, before the next record is read.  A cell of the file   *)
(* is a text, or undefined when the file has no such column.               *)
(***************************************************************************)
MaxRecords == 3

NaN == [k |-> "NaN", v |-> 0]

AllDigits(text) == text # <<>> /\ \A i \in 1..Len(text) : text[i] \in Digits

\* The number an unsigned decimal text stands for, with the fractions .0
\* and .5 (numbers are carried as twice their value); NaN for other texts.
Unsigned(text) ==
  LET n == Len(text)
  IN IF AllDigits(text) THEN Num(2 * ParseInt(text))
     ELSE IF n >= 3 /\ text[n - 1] = "." /\ text[n] \in {"0", "5"}
             /\ AllDigits(SubSeq(text, 1, n - 2))
          THEN Num(2 * ParseInt(SubSeq(text, 1, n - 2))
                   + (IF text[n] = "5" THEN 1 ELSE 0))
          ELSE NaN

\* The cast of yup.number(): a text becomes +text, the empty text NaN.
CellNumber(cell) ==
  IF cell.k # "string" THEN cell
  ELSE IF cell.v # <<>> /\ Head(cell.v) = "-"
       THEN LET n == Unsigned(Tail(cell.v))
            IN IF n.k = "number" THEN Num(0 - n.v) ELSE NaN
       ELSE Unsigned(cell.v)

\* tokens: yup.number().integer().positive().required()
TokensOk(cell) ==
  LET n == CellNumber(cell)
  IN n.k = "number" /\ IsInteger(n) /\ IsPositive(n)

\* A slip: the record is not validated.
RecordOkAlways(record) == TRUE

\* schema.validate(record): vestingName and receiver are
\* yup.string().required().
RecordOk(record) ==
  /\ NameOk(record.vestingName)
  /\ NameOk(record.receiver)
  /\ TokensOk(record.tokens)

\* new web3.PublicKey(receiver) throws unless the text is a key.
PublicKeys == {"alice", "bob"}
IsPublicKey(receiver) == receiver.k = "string" /\ receiver.v \in PublicKeys

\* new BigNumber(amountSol), in SOL: the record's amountSol cell is read,
\* not its tokens cell.
BigNumberOf(cell) == IF cell.k = "string" THEN CellNumber(cell) ELSE NaN

Record(vestingName, receiver, tokens, amountSol) ==
  [vestingName |-> vestingName, receiver |-> receiver, tokens |-> tokens,
   amountSol |-> amountSol]

Five == <<"5">>
Twelve == <<"1", "2">>
SevenPointZero == <<"7", ".", "0">>
OnePointFive == <<"1", ".", "5">>
MinusOne == <<"-", "1">>
Zero == <<"0">>
Letter == <<"x">>

Records ==
  {Record(Type("seed"), Type("alice"), Str(Five), Str(Five)),
   Record(Type("team"), Type("bob"), Str(Twelve), UndefText),
   Record(Type("seed"), Type("bob"), Str(SevenPointZero), Str(OnePointFive)),
   Record(Type("team"), Type("carol?"), Str(Five), Str(Five)),
   Record(Type(""), Type("alice"), Str(Five), Str(Five)),
   Record(Type("seed"), Type(""), Str(Five), Str(Five)),
   Record(UndefType, Type("alice"), Str(Five), Str(Five)),
   Record(Type("seed"), Type("alice"), Str(Empty), Str(Five)),
   Record(Type("seed"), Type("alice"), Str(MinusOne), Str(Five)),
   Record(Type("seed"), Type("alice"), Str(OnePointFive), Str(Five)),
   Record(Type("seed"), Type("alice"), Str(Zero), Str(Five)),
   Record(Type("seed"), Type("alice"), Str(Letter), Str(Five)),
   Record(Type("seed"), Type("alice"), UndefText, Str(Five))}

RECURSIVE CsvFiles(_)
CsvFiles(n) ==
  IF n = 0 THEN {<<>>}
  ELSE {Append(f, record) : f \in CsvFiles(n - 1), record \in Records}

InitCsv ==
  /\ command = "fill-vestings"
  /\ file \in UNION {CsvFiles(n) : n \in 0..MaxRecords}
  /\ fill_pc = "read"
  /\ vestingTypes = <<>>
  /\ transactions = <<>>
  /\ schedule = Plan(UndefType, Undef, <<>>)
  /\ pc = "idle"
  /\ validated_schedule = Plan(UndefType, Undef, <<>>)
  /\ builder = NoBuilder
  /\ result = Pending

\* The record the for await loop is at: every record before it was sent.
record == file[Len(transactions) + 1]

\* try { await schema.validate(record); } catch (e) { throw Error(...) }
ValidateRecord ==
  /\ command = "fill-vestings"
  /\ fill_pc = "read"
  /\ Len(transactions) < Len(file)
  /\ fill_pc' = IF RecordOk(record) THEN "validated" ELSE "failed"
  /\ UNCHANGED <<compiler, command, file, vestingTypes, transactions>>

\* const receiverPubkey = new web3.PublicKey(receiver); ...
\* createVestingAccount(receiverPubkey,
\*   new CreateVestingAccountInstruction(new BN(new BigNumber(amountSol)...)))
\* await processTransaction(transaction);
\* new BN of the text of a NaN either throws or makes some amount.
createVestingAccount ==
  /\ command = "fill-vestings"
  /\ fill_pc = "validated"
  /\ LET amount == BigNumberOf(record.amountSol)
     IN \E built \in (IF amount.k = "number" THEN {TRUE} ELSE BOOLEAN),
           confirmed \in BOOLEAN :
          IF IsPublicKey(record.receiver) /\ built
          THEN /\ transactions' =
                    Append(transactions,
                           Sent(record.vestingName.v,
                                [instruction |-> "CreateVestingAccount",
                                 receiver |-> record.receiver.v,
                                 amount |-> amount],
                                confirmed))
               /\ fill_pc' = IF confirmed THEN "read" ELSE "failed"
          ELSE /\ fill_pc' = "failed"
               /\ UNCHANGED transactions
  /\ UNCHANGED <<compiler, command, file, vestingTypes>>

\* The parser has no record left.
FinishCsv ==
  /\ command = "fill-vestings"
  /\ fill_pc = "read"
  /\ Len(transactions) = Len(file)
  /\ fill_pc' = "done"
  /\ UNCHANGED <<compiler, command, file, vestingTypes, transactions>>

NextCsv ==
  \/ ValidateRecord
  \/ createVestingAccount
  \/ FinishCsv

SpecCsv == InitCsv /\ [][NextCsv]_vars

(***************************************************************************)
(* Properties of the compilation.                                          *)
(***************************************************************************)
Done == pc = "done"
Compiled == Done /\ result.status = "ok"
Items == schedule.schedule
Amount == schedule.amount.v \div 2
HasPart(item) == item.part.k = "number"
PartOf(item) == item.part.v \div 2

RECURSIVE SumTokenAmounts(_, _)
SumTokenAmounts(events, n) ==
  IF n = 0 THEN 0 ELSE SumTokenAmounts(events, n - 1) + events[n].token_amount

RECURSIVE SumOfParts(_, _)
SumOfParts(items, n) ==
  IF n = 0 THEN 0
  ELSE SumOfParts(items, n - 1) + (IF HasPart(items[n]) THEN PartOf(items[n]) ELSE 0)

\* The duration grammar read over a whole text: P, the date components in
\* the order Y M W D, then optionally T and the time components H M S.
Quantity(t, a, b) == IF b > a THEN ParseInt(SubSeq(t, a, b - 2)) ELSE 0

Grammar(t) ==
  LET p1 == 2
      p2 == ComponentEnd(t, p1, "Y")
      p3 == ComponentEnd(t, p2, "M")
      p4 == ComponentEnd(t, p3, "W")
      p5 == ComponentEnd(t, p4, "D")
      hasT == p5 <= Len(t) /\ t[p5] = "T"
      q1 == IF hasT THEN p5 + 1 ELSE p5
      q2 == ComponentEnd(t, q1, "H")
      q3 == ComponentEnd(t, q2, "M")
      q4 == ComponentEnd(t, q3, "S")
  IN [whole |-> Len(t) >= 1 /\ t[1] = "P" /\ q4 = Len(t) + 1 /\ (hasT => q4 > q1),
      date |-> p5 > p1,
      time |-> q4 > q1,
      years |-> Quantity(t, p1, p2), months |-> Quantity(t, p2, p3),
      weeks |-> Quantity(t, p3, p4), days |-> Quantity(t, p4, p5),
      hours |-> Quantity(t, q1, q2), minutes |-> Quantity(t, q2, q3),
      seconds |-> Quantity(t, q3, q4)]

\* The seconds of a text of the grammar with year = 365 days,
\* month = 30 days, week = 7 days, day = 86400 s.
FixedUnits(g) ==
  g.years * 31536000 + g.months * 2592000 + g.weeks * 604800
  + g.days * 86400 + g.hours * 3600 + g.minutes * 60 + g.seconds

\* The durations parsed so far, each with the text it was parsed from: the
\* period of a fixed item, the period and the offset of an offseted one.
ParsedAt(k) ==
  LET item == validated_schedule.schedule[k]
      e == builder.entries[k]
      previous == IF k = 1 THEN 0 ELSE FinalTime(builder.entries[k - 1])
  IN CASE item.type.v = "fixed" -> {<<item.period.v, e.period>>}
       [] item.type.v = "offseted" ->
            {<<PeriodOrEmpty(item.period), e.period>>,
             <<item.offset.v, e.start_time - previous>>}
       [] OTHER -> {}

ParsedDurations == UNION {ParsedAt(k) : k \in 1..Len(builder.entries)}

\* The duration texts of the plan as given.
DurationFields(item) ==
  {f.v : f \in {x \in {item.offset, item.period} : x.k = "string"}}

\* C1: the token amounts of the events of the schedule compiled from a
\* valid plan (its first item not offseted) sum to exactly plan.amount.
C1_TokensSumToAmount ==
  (Compiled /\ Items[1].type # Type("offseted")) =>
    SumTokenAmounts(result.schedule.events, result.schedule.event_count) = Amount

\* C2: an item with an explicit part receives
\* floor(total_tokens * part / sum of all explicit parts), and the item
\* without a part receives total_tokens minus the allocations of all others.
C2_Allocation ==
  Compiled =>
    LET events == result.schedule.events
        n == Len(Items)
    IN /\ Len(events) = n
       /\ \A k \in 1..n :
            events[k].token_amount =
              IF HasPart(Items[k])
              THEN (Amount * PartOf(Items[k])) \div SumOfParts(Items, n)
              ELSE Amount - (SumTokenAmounts(events, n) - events[k].token_amount)

C2_Witness ==
  /\ Compiled
  /\ \E k, j \in 1..Len(Items) :
       /\ ~HasPart(Items[k])
       /\ HasPart(Items[j])
       /\ (Amount * PartOf(Items[j])) % SumOfParts(Items, Len(Items)) # 0
       /\ result.schedule.events[k].token_amount > 0

\* C3: a duration text of the grammar with at least one date component
\* parses to the sum of its components in the fixed units
\* (year = 31536000 s, month = 2592000 s, ...).
C3_FixedUnits ==
  \A d \in ParsedDurations :
    (Grammar(d[1]).whole /\ Grammar(d[1]).date) => d[2] = FixedUnits(Grammar(d[1]))

\* Item k with its period replaced.
WithPeriod(k, period) ==
  [schedule EXCEPT !.schedule[k].period = period]

\* C4: a duration text of time components only (P, T, then H/M/S
\* components) is accepted and parses to the sum of its time components.
C4_TimeOnlyAccepted ==
  \A k \in 1..Len(Items) :
    LET item == Items[k]
        g == Grammar(item.period.v)
    IN (/\ item.type.v = "fixed"
        /\ item.period.k = "string"
        /\ g.whole /\ g.time /\ ~g.date
        /\ SchemaOk(WithPeriod(k, Str(P1D))))
       => /\ result.status # "ValidationError"
          /\ k <= Len(builder.entries) => builder.entries[k].period = FixedUnits(g)

C6_MalformedRejected ==
  (/\ Done
   /\ \E k \in 1..Len(Items) :
        \E t \in DurationFields(Items[k]) : ~Grammar(t).whole)
  => result.status = "ValidationError"

\* An item that lacks a field its type requires.
LacksRequired(item) ==
  \/ item.type = Type("fixed") /\ "undefined" \in {item.time.k, item.period.k}
  \/ item.type = Type("onetime") /\ item.time.k = "undefined"
  \/ item.type = Type("offseted") /\ item.offset.k = "undefined"

\* C7: a plan whose first item is offseted (and whose items have the
\* fields of their types) fails with FirstItemOffsetedError and no builder
\* operation is applied for that item.
C7_FirstItemOffseted ==
  (/\ Len(Items) >= 1
   /\ Items[1].type = Type("offseted")
   /\ \A k \in 1..Len(Items) : ~LacksRequired(Items[k])) =>
    /\ builder.entries = <<>>
    /\ Done => result.status \in {"FirstItemOffsetedError", "ValidationError"}

\* C8: a plan in which two or more items carry no explicit part never
\* compiles to a schedule, and once all its items are fed to the builder
\* it fails with AmbiguousRemainderError.
NoPartItems == {k \in 1..Len(Items) : Items[k].part.k = "null"}

C8_TwoRemaindersFail ==
  (Done /\ Cardinality(NoPartItems) >= 2) =>
    /\ result.status # "ok"
    /\ Len(builder.entries) = Len(Items) =>
         result.status = "AmbiguousRemainderError"

C8_Witness ==
  /\ Done
  /\ Cardinality(NoPartItems) >= 2
  /\ Len(builder.entries) = Len(Items)
  /\ result.status = "AmbiguousRemainderError"

\* C9: an item that lacks a field its type requires ends the compilation
\* in a validation failure raised before any item is fed to the builder.
C9_MissingFieldRejected ==
  (Done /\ \E k \in 1..Len(Items) : LacksRequired(Items[k])) =>
    /\ builder.entries = <<>>
    /\ result.status = "ValidationError"

\* C10: validation rejects a type outside {fixed, onetime, offseted}, a
\* part that is a number but not an integer >= 1, and a count that is a
\* number but not an integer >= 1.
IntegerFrom1(n) == n.v % 2 = 0 /\ n.v >= 2

Rejectable(item) ==
  \/ item.type \notin {Type("fixed"), Type("onetime"), Type("offseted")}
  \/ item.part.k = "number" /\ ~IntegerFrom1(item.part)
  \/ item.count.k = "number" /\ ~IntegerFrom1(item.count)

C10_Rejects ==
  (pc # "validate" /\ \E k \in 1..Len(Items) : Rejectable(Items[k])) =>
    result.status = "ValidationError"

\* Item k with its part replaced.
WithPart(k, part) == [schedule EXCEPT !.schedule[k].part = part]

\* A part of the given kinds is accepted (the plan is rejected only if it
\* is rejected with an explicit part 1 there too) and makes the item the
\* remainder item (it is fed to the builder without tokens).
AcceptedAsRemainder(kinds) ==
  \A k \in 1..Len(Items) :
    (pc # "validate" /\ Items[k].part.k \in kinds) =>
      /\ SchemaOk(WithPart(k, Num(2))) => result.status # "ValidationError"
      /\ k <= Len(builder.entries) => ~builder.entries[k].tokens.defined

\* C10 as stated: ... and a part that is absent (left out, or null) is
\* accepted and marks the item as the remainder item.
C10_AbsentPartAccepted ==
  C10_Rejects /\ AcceptedAsRemainder({"undefined", "null"})

\* C10 as amended: ... a part that is null is accepted and marks the item
\* as the remainder item, and a part that is left out is rejected.
C10_NullPartAccepted ==
  /\ C10_Rejects
  /\ AcceptedAsRemainder({"null"})
  /\ (pc # "validate" /\ \E k \in 1..Len(Items) : Items[k].part.k = "undefined")
       => result.status = "ValidationError"

C10_Witness ==
  /\ Compiled
  /\ \E k \in 1..Len(Items) :
       Items[k].part.k = "null" /\ ~builder.entries[k].tokens.defined

\* C11: the builder is fed one operation per schedule item, in the order
\* of plan.schedule and not sorted by time: entry i (and, once compiled,
\* event i) comes from item i, and event_count is the number of items.
FromItem(e, item) ==
  /\ e.kind = IF item.type.v = "onetime" THEN "LumpRelease" ELSE "LinearRelease"
  /\ item.type.v \in {"fixed", "onetime"} => e.start_time = item.time.v \div 1000
  /\ item.type.v = "fixed" => e.period = parse_duration(item.period.v)

C11_ItemOrder ==
  /\ Len(builder.entries) <= Len(Items)
  /\ \A k \in 1..Len(builder.entries) : FromItem(builder.entries[k], Items[k])
  /\ Compiled =>
       /\ result.schedule.event_count = Len(Items)
       /\ Len(result.schedule.events) = Len(Items)
       /\ \A k \in 1..Len(Items) : FromItem(result.schedule.events[k], Items[k])

\* A compiled schedule whose events are not in the order of their times.
C11_Witness ==
  /\ Compiled
  /\ \E k \in 1..(Len(Items) - 1) :
       result.schedule.events[k].start_time
         > result.schedule.events[k + 1].start_time

\* The release times of the tranches of an event.
TrancheTimes(e) == [i \in 1..e.tranche_count |-> e.start_time + (i - 1) * e.period]

\* C13: the anchor of an offseted item is the final release time of the
\* item before it plus the parsed offset, previous anchor
\* + (previous count - 1) * previous period + offset, and its tranche
\* times are anchor, anchor + period, ..., anchor + (count - 1) * period.
C13_OffsetedAnchor ==
  Compiled =>
    \A k \in 2..Len(Items) :
      Items[k].type.v = "offseted" =>
        LET events == result.schedule.events
            before == events[k - 1]
            anchor == before.start_time
                      + (before.tranche_count - 1) * before.period
                      + parse_duration(Items[k].offset.v)
            period == IF Items[k].period.k = "string"
                      THEN parse_duration(Items[k].period.v) ELSE 0
            count == IF Items[k].count.k = "number"
                     THEN Items[k].count.v \div 2 ELSE 1
        IN /\ events[k].start_time = anchor
           /\ Len(TrancheTimes(events[k])) = count
           /\ \A i \in 1..count :
                TrancheTimes(events[k])[i] = anchor + (i - 1) * period

C13_Witness ==
  /\ Compiled
  /\ \E k \in 2..Len(Items) :
       /\ Items[k].type.v = "offseted"
       /\ result.schedule.events[k - 1].tranche_count > 1
       /\ result.schedule.events[k - 1].period > 0
       /\ result.schedule.events[k].tranche_count > 1
       /\ result.schedule.events[k].period > 0
       /\ parse_duration(Items[k].offset.v) > 0

C12_NoPartialSchedule ==
  /\ ~Done => transactions = <<>>
  /\ (Done /\ result.status # "ok") =>
       (result.schedule = NoSchedule /\ transactions = <<>>)
  /\ \A i \in 1..Len(transactions) :
       /\ Compiled
       /\ transactions[i].instruction.vesting_count = Len(Items)
       /\ Len(transactions[i].instruction.vestings) = Len(Items)

\* A compilation that failed after the builder had taken an item, and a
\* command that then ended without a transaction.
C12_Witness ==
  /\ Done
  /\ result.status # "ok"
  /\ Len(builder.entries) >= 1
  /\ command = "failed"
  /\ transactions = <<>>

\* C15: fillVestingTypesFromJson compiles every type of the file before
\* it sends anything: a file with a type that fails validation or
\* compilation gets no createVestingType transaction; otherwise the
\* transactions go out one at a time in file order, each awaited, so that
\* a failure at type k leaves types 1..k-1 created and none after k tried.
FailsValidation(plan) ==
  \/ plan.name.k # "string" \/ plan.name.v = ""
  \/ plan.amount.k # "number" \/ plan.amount.v <= 0 \/ plan.amount.v % 2 # 0
  \/ plan.schedule = <<>>
  \/ \E k \in 1..Len(plan.schedule) :
       plan.schedule[k].type.v \notin {"fixed", "onetime", "offseted"}

FailsCompilation(plan) ==
  \/ \E k \in 1..Len(plan.schedule) : LacksRequired(plan.schedule[k])
  \/ Cardinality({k \in 1..Len(plan.schedule) : plan.schedule[k].part.k = "null"}) > 1

C15_CompileAllThenSubmit ==
  /\ (\E k \in 1..Len(file) : FailsValidation(file[k]) \/ FailsCompilation(file[k]))
       => transactions = <<>>
  /\ transactions # <<>> => Len(vestingTypes) = Len(file)
  /\ Len(transactions) <= Len(file)
  /\ \A i \in 1..Len(transactions) :
       /\ transactions[i].name = file[i].name.v
       /\ transactions[i].instruction.instruction = "CreateVestingType"
       /\ transactions[i].instruction.vesting_count = Len(file[i].schedule)
       /\ transactions[i].instruction.token_count = file[i].amount.v \div 2
       /\ i < Len(transactions) => transactions[i].confirmed
       /\ ~transactions[i].confirmed => fill_pc = "failed"
  /\ fill_pc = "done" =>
       /\ Len(transactions) = Len(file)
       /\ \A i \in 1..Len(file) : transactions[i].confirmed

\* The second type of the file fails after the first one was collected,
\* and nothing has been sent.
C15_Witness ==
  /\ fill_pc = "failed"
  /\ Len(vestingTypes) >= 1
  /\ Len(vestingTypes) < Len(file)
  /\ transactions = <<>>

\* C16: fillVestingsFromCsv sends a createVestingAccount transaction for
\* a record only after that record passed the schema, in file order; when
\* record k fails validation the run stops with an error, transactions
\* have been sent for exactly the records 1..k-1 and none for record k or
\* a later one.
NonEmptyText(cell) == cell.k = "string" /\ cell.v # ""

\* A text of digits, not all of them 0, with or without a closing ".0".
PositiveInteger(cell) ==
  /\ cell.k = "string"
  /\ LET n == Len(cell.v)
         whole == IF n >= 2 /\ cell.v[n - 1] = "." /\ cell.v[n] = "0"
                  THEN SubSeq(cell.v, 1, n - 2) ELSE cell.v
     IN /\ whole # <<>>
        /\ \A i \in 1..Len(whole) : whole[i] \in Digits
        /\ \E i \in 1..Len(whole) : whole[i] # "0"

PassesSchema(r) ==
  NonEmptyText(r.vestingName) /\ NonEmptyText(r.receiver) /\ PositiveInteger(r.tokens)

C16_ValidatedBeforeSent ==
  /\ Len(transactions) <= Len(file)
  /\ \A i \in 1..Len(transactions) :
       /\ PassesSchema(file[i])
       /\ transactions[i].name = file[i].vestingName.v
       /\ transactions[i].instruction.receiver = file[i].receiver.v
       /\ i < Len(transactions) => transactions[i].confirmed
       /\ ~transactions[i].confirmed => fill_pc = "failed"
  /\ fill_pc = "validated" => PassesSchema(file[Len(transactions) + 1])
  /\ \A k \in 1..Len(file) :
       ~PassesSchema(file[k]) =>
         /\ Len(transactions) < k
         /\ fill_pc # "done"
         /\ (Len(transactions) = k - 1 /\ fill_pc # "read") => fill_pc = "failed"

\* The third record fails validation after two were sent and confirmed.
C16_Witness ==
  /\ fill_pc = "failed"
  /\ Len(file) = 3
  /\ Len(transactions) = 2
  /\ transactions[2].confirmed
  /\ ~PassesSchema(file[3])

====
